---- MODULE Spec2Model ----
(***************************************************************************)
(* Model of src/main.py (ChildInfoExtractor and the interactive main loop). *)
(*                                                                         *)
(* Text is a sequence of tokens.  A token is either a single character     *)
(* (" ", the non-breaking space NBSP, the newline NL, a letter) or one of   *)
(* the literal words the code looks for ("overview", "profile", "details", *)
(* "Unknown", and "/child/" in a link), kept whole.  No two tokens of the   *)
(* alphabets used here concatenate to one of those words, so substring     *)
(* search and replacement on the string are search and replacement of the  *)
(* token.                                                                  *)
(***************************************************************************)
EXTENDS Naturals, Sequences, FiniteSets, TLC

VARIABLES
    all_children,   \* self.all_children
    html_content,   \* self.html_content
    calls,          \* history: what each method call returned, in call order
    files,          \* the file system: a set of [name, rows]
    now,            \* the wall clock (datetime.now(), to the second)
    has_pandas,     \* whether "import pandas" succeeds in this environment
    pc,             \* main(): the prompt the shell is waiting at
    export_format,  \* main(): the local export_format
    default_filename, \* main(): the local default_filename
    text_in,        \* _sanitize_text: the argument
    text_out        \* _sanitize_text: the value returned

vars == <<all_children, html_content, calls, files, now, has_pandas,
          pc, export_format, default_filename, text_in, text_out>>

\* the locals of main()
shell == <<pc, export_format, default_filename>>

\* ------------------------------------------------------------ bounds
MaxLen == 4        \* longest text handed to _sanitize_text on its own
MaxAnchors == 3    \* anchors in one pasted document
MaxKids == 2       \* child nodes of one anchor
MaxCalls == 3      \* method calls in one session
MaxClock == 1      \* seconds the clock may advance

\* ------------------------------------------------------------ text
None == <<"None">>
NBSP == "nbsp"
NL == "nl"
CHILD == "/child/"
Unknown == <<"Unknown">>

\* the sequences over S of length at most n
SeqsUpTo(S, n) == UNION {[1..k -> S] : k \in 0..n}

RECURSIVE Concat(_)
Concat(ss) == IF ss = <<>> THEN <<>> ELSE Head(ss) \o Concat(Tail(ss))

\* str.isspace(): what str.split() with no argument splits on
IsSpace(c) == c \in {" ", NL, NBSP}

\* a character matched by the regular expression \w
IsWordChar(c) == ~IsSpace(c) /\ c \notin {"-", "/", CHILD}

\* text.replace(old, new) for a one-token old
str_replace(text, old, new) ==
    Concat([i \in DOMAIN text |-> IF text[i] = old THEN new ELSE <<text[i]>>])

RECURSIVE SplitAcc(_, _, _)
SplitAcc(s, words, cur) ==
    IF s = <<>> THEN (IF cur = <<>> THEN words ELSE Append(words, cur))
    ELSE IF IsSpace(Head(s))
         THEN SplitAcc(Tail(s), IF cur = <<>> THEN words ELSE Append(words, cur), <<>>)
         ELSE SplitAcc(Tail(s), words, Append(cur, Head(s)))

\* text.split()
str_split(text) == SplitAcc(text, <<>>, <<>>)

RECURSIVE str_join(_, _)
\* sep.join(words)
str_join(sep, words) ==
    IF words = <<>> THEN <<>>
    ELSE IF Len(words) = 1 THEN Head(words)
    ELSE Head(words) \o sep \o str_join(sep, Tail(words))

\* a plausible slip: strip() instead of ' '.join(split())
sanitize_strip_only(text) ==
    IF text = None \/ text = <<>> THEN <<>>
    ELSE LET t == str_replace(text, NBSP, <<" ">>)
             idx == {i \in DOMAIN t : ~IsSpace(t[i])}
         IN  IF idx = {} THEN <<>>
             ELSE LET lo == CHOOSE i \in idx : \A j \in idx : i <= j
                      hi == CHOOSE i \in idx : \A j \in idx : j <= i
                  IN  SubSeq(t, lo, hi)

_sanitize_text(text) ==
    IF text = None \/ text = <<>> THEN <<>>
    ELSE str_join(<<" ">>, str_split(str_replace(text, NBSP, <<" ">>)))

\* ------------------------------------------------------------ links
\* a character the class [^/] rejects: "/" itself and the token that starts with it
IsSlash(c) == c \in {"/", CHILD}

\* self.child_id_pattern.search(href): the leftmost "/child/" followed by at
\* least one non-"/" character; 0 when there is none
id_match(href) ==
    LET hits == {i \in DOMAIN href :
                    href[i] = CHILD /\ i < Len(href) /\ ~IsSlash(href[i + 1])}
    IN  IF hits = {} THEN 0 ELSE CHOOSE i \in hits : \A j \in hits : i <= j

\* match.group(1): the longest run of non-"/" characters after the match
id_group(href, i) ==
    LET stops == {j \in (i + 1)..Len(href) : IsSlash(href[j])}
        last == IF stops = {} THEN Len(href)
                ELSE (CHOOSE j \in stops : \A k \in stops : j <= k) - 1
    IN  SubSeq(href, i + 1, last)

_extract_child_id(href) ==
    IF href = <<>> THEN None
    ELSE IF id_match(href) = 0 THEN None
    ELSE id_group(href, id_match(href))

\* ------------------------------------------------------------ the parsed tree
(* An anchor is [href, kids, row, raises]:                                 *)
(*   kids   its child nodes in document order, each [div, cls, txt]: a text *)
(*          node (div = FALSE) or a div with class set cls holding the one  *)
(*          text node txt (no child at all when txt = <<>>);                *)
(*   row    [present, before, after]: whether the anchor has an ancestor    *)
(*          <div class="row">, and the text of the nearest one that         *)
(*          precedes and follows the anchor;                                *)
(*   raises whether walking this anchor's subtree raises an exception.      *)
NameClasses == {"col-lg-8", "col-xs-8"}

\* tag.text: every string under the tag, concatenated
anchor_text(a) == Concat([i \in DOMAIN a.kids |-> a.kids[i].txt])
row_text(a) == a.row.before \o anchor_text(a) \o a.row.after

\* the first match of a find, 0 when there is none
first_of(hits) == IF hits = {} THEN 0 ELSE CHOOSE i \in hits : \A j \in hits : i <= j

has_name_class(d) == d.cls \cap NameClasses # {}
\* text=re.compile(r'\w+') is matched against the div's .string, which is None
\* for a div with no child
string_has_word(d) == d.txt # <<>> /\ \E i \in DOMAIN d.txt : IsWordChar(d.txt[i])

\* anchor_tag.find('div', {'class': ['col-lg-8', 'col-xs-8']})
find_name_div(a) ==
    first_of({i \in DOMAIN a.kids : a.kids[i].div /\ has_name_class(a.kids[i])})

\* anchor_tag.find('div', text=re.compile(r'\w+'))
find_alt_name_div(a) ==
    first_of({i \in DOMAIN a.kids : a.kids[i].div /\ string_has_word(a.kids[i])})

\* a plausible slip: the tiers tried in the wrong order (anchor text first)
find_name_text_first(a) ==
    LET all_text == _sanitize_text(anchor_text(a))
        name_div == find_name_div(a)
    IN  IF all_text # <<>> THEN all_text
        ELSE IF name_div # 0 THEN _sanitize_text(a.kids[name_div].txt)
        ELSE Unknown

_find_child_name(a) ==
    LET name_div == find_name_div(a)
        alt_name_div == find_alt_name_div(a)
        all_text == _sanitize_text(anchor_text(a))
    IN  IF name_div # 0 THEN _sanitize_text(a.kids[name_div].txt)
        ELSE IF alt_name_div # 0 THEN _sanitize_text(a.kids[alt_name_div].txt)
        ELSE IF all_text # <<>> THEN all_text
        ELSE Unknown

CommonText == <<"overview", "profile", "details">>

RECURSIVE strip_common(_, _)
\* for common_text in [...]: all_text = all_text.replace(common_text, "")
strip_common(text, words) ==
    IF words = <<>> THEN text
    ELSE strip_common(str_replace(text, Head(words), <<>>), Tail(words))

\* a plausible slip: the recovery attempted whatever name was found
recover_name_always(a, child_name) ==
    IF a.row.present
    THEN LET all_text == strip_common(_sanitize_text(row_text(a)), CommonText)
         IN  IF all_text # <<>> THEN all_text ELSE child_name
    ELSE child_name

\* lines 113-121: the recovery from the ancestor row
recover_name(a, child_name) ==
    IF child_name = <<>> \/ child_name = Unknown
    THEN IF a.row.present
         THEN LET all_text == strip_common(_sanitize_text(row_text(a)), CommonText)
              IN  IF all_text # <<>> THEN all_text ELSE child_name
         ELSE child_name
    ELSE child_name

\* soup.find_all('a', href=re.compile(r'/child/'))
find_all_child_links(anchors) ==
    SelectSeq(anchors, LAMBDA a : \E i \in DOMAIN a.href : a.href[i] = CHILD)

\* one pass of the loop body, lines 103-131: <<>> when the anchor is skipped
\* (no id, or an exception caught), else the one record appended
loop_body(a, t) ==
    LET child_id == _extract_child_id(a.href)
    IN  IF a.raises THEN <<>>
        ELSE IF child_id = None THEN <<>>
        ELSE <<[id |-> child_id,
                name |-> recover_name(a, _find_child_name(a)),
                extraction_time |-> t]>>

RECURSIVE for_loop_break(_, _)
\* a plausible slip: break instead of continue on a skipped anchor
for_loop_break(links, t) ==
    IF links = <<>> THEN <<>>
    ELSE IF loop_body(Head(links), t) = <<>> THEN <<>>
    ELSE loop_body(Head(links), t) \o for_loop_break(Tail(links), t)

RECURSIVE for_loop(_, _)
for_loop(links, t) ==
    IF links = <<>> THEN <<>>
    ELSE loop_body(Head(links), t) \o for_loop(Tail(links), t)

\* lines 93-131: the records of one parsed document
extract_children(anchors, t) == for_loop(find_all_child_links(anchors), t)

\* ------------------------------------------------------------ ChildInfoExtractor
(* A pasted HTML string is [kind, anchors]: kind "empty" is the empty      *)
(* string, "unparseable" one on which BeautifulSoup raises, "html" one      *)
(* that parses to a tree holding these anchors in document order.          *)
EmptyHtml == [kind |-> "empty", anchors |-> <<>>]
Unparseable == [kind |-> "unparseable", anchors |-> <<>>]
Html(anchors) == [kind |-> "html", anchors |-> anchors]

\* one entry of the history: the method, what it returned (the records of an
\* extract, the path of an export, <<>> for the empty list and for no path)
\* and why
Returned(op, ret, why) == [op |-> op, ret |-> ret, why |-> why]

\* __init__, lines 31-35, in a fresh process
Init ==
    /\ all_children = <<>>
    /\ html_content = EmptyHtml
    /\ calls = <<>>
    /\ files = {}
    /\ now = 0
    /\ has_pandas \in BOOLEAN
    /\ pc = "api"
    /\ export_format = "none"
    /\ default_filename = <<>>
    /\ text_in = None
    /\ text_out = None

\* lines 83-138: the list extract returns for this input
extract_return(html, t) ==
    IF html.kind = "empty" THEN <<>>
    ELSE IF html.kind = "unparseable" THEN <<>>
    ELSE extract_children(html.anchors, t)

\* a plausible slip: self.all_children = children instead of extend
extract_assign(html) ==
    LET children == extract_return(html, now)
    IN  /\ html_content' = html
        /\ all_children' = children
        /\ calls' = Append(calls, Returned("extract", children, "returned"))
        /\ UNCHANGED <<files, now, has_pandas, text_in, text_out>>

\* extract(html_content), lines 71-138
extract(html) ==
    LET children == extract_return(html, now)
    IN  /\ html_content' = html
        /\ all_children' = all_children \o children
        /\ calls' = Append(calls, Returned("extract", children, "returned"))
        /\ UNCHANGED <<files, now, has_pandas, text_in, text_out>>

\* open(filename, 'w') and the rows written: the file is created or truncated
write_file(name, rows) ==
    {f \in files : f.name # name} \cup {[name |-> name, rows |-> rows]}

\* the filename used: the argument, or child_data_<timestamp>.<ext>
resolve_filename(filename, ext) ==
    IF filename = <<>> THEN <<"child_data", now, ext>> ELSE filename

\* what an export does once it is past its checks: io is "ok", "open" (the
\* file cannot be opened) or "write" (an error after the file was created)
export_write(op, filename, ext, io) ==
    LET name == resolve_filename(filename, ext)
    IN  IF io = "ok"
        THEN /\ files' = write_file(name, all_children)
             /\ calls' = Append(calls, Returned(op, name, "ok"))
        ELSE /\ files' = IF io = "open" THEN files ELSE write_file(name, <<>>)
             /\ calls' = Append(calls, Returned(op, <<>>, "write"))

\* a plausible slip: the export without its "nothing to export" check
export_csv_unchecked(filename, io) ==
    /\ export_write("csv", filename, "csv", io)
    /\ UNCHANGED <<all_children, html_content, now, has_pandas, text_in, text_out>>

\* a plausible slip: the collection cleared once it has been exported
export_csv_clearing(filename, io) ==
    /\ IF all_children = <<>>
       THEN /\ calls' = Append(calls, Returned("csv", <<>>, "empty"))
            /\ UNCHANGED files
       ELSE export_write("csv", filename, "csv", io)
    /\ all_children' = <<>>
    /\ UNCHANGED <<html_content, now, has_pandas, text_in, text_out>>

\* export_to_csv(filename), lines 140-172
export_to_csv(filename, io) ==
    /\ IF all_children = <<>>
       THEN /\ calls' = Append(calls, Returned("csv", <<>>, "empty"))
            /\ UNCHANGED files
       ELSE export_write("csv", filename, "csv", io)
    /\ UNCHANGED <<all_children, html_content, now, has_pandas, text_in, text_out>>

\* export_to_excel(filename), lines 174-208
export_to_excel(filename, io) ==
    /\ IF all_children = <<>>
       THEN /\ calls' = Append(calls, Returned("excel", <<>>, "empty"))
            /\ UNCHANGED files
       ELSE IF ~has_pandas
       THEN /\ calls' = Append(calls, Returned("excel", <<>>, "nolib"))
            /\ UNCHANGED files
       ELSE export_write("excel", filename, "xlsx", io)
    /\ UNCHANGED <<all_children, html_content, now, has_pandas, text_in, text_out>>

\* ------------------------------------------------------------ inputs
NoRow == [present |-> FALSE, before |-> <<>>, after |-> <<>>]
TextNode(txt) == [div |-> FALSE, cls |-> {}, txt |-> txt]

\* link targets: "/child/7", "/child/8/", "p/child/78/p", "/child/" (no id),
\* "/child//7" (no id), "/child//child/8" (the id follows the second
\* "/child/") and "/7" (not a child link)
Hrefs ==
    { <<CHILD, "7">>, <<CHILD, "8", "/">>, <<"p", CHILD, "7", "8", "/", "p">>,
      <<CHILD>>, <<CHILD, "/", "7">>, <<CHILD, CHILD, "8">>, <<"/", "7">> }

\* texts found in the markup: a name spread over non-breaking spaces and
\* newlines, whitespace only, the literal "Unknown", filler words only
Texts ==
    { <<"J", NBSP, NL, "D">>, <<" ">>, <<"Unknown">>,
      <<" ", "overview", " ", "profile", " ">> }

ClassSets == { {}, {"col-lg-8"}, {"media", "col-xs-8"} }

Nodes ==
    {TextNode(t) : t \in Texts}
      \cup [div : {TRUE}, cls : ClassSets, txt : Texts \cup {<<>>}]

\* the ancestor row: none, or one with a name or nothing before the anchor
\* and filler words or nothing after it
Rows ==
    {NoRow} \cup [present : {TRUE}, before : {<<>>, <<"K">>},
                  after : {<<>>, <<"overview", " ", "profile">>}]

\* one anchor with a valid link and any subtree and row
DeepAnchors ==
    [href : {<<CHILD, "7">>}, kids : SeqsUpTo(Nodes, MaxKids), row : Rows,
     raises : {FALSE}]

\* anchors with a plain name and any link, some of which fail in processing
WideAnchors ==
    [href : Hrefs, kids : {<<TextNode(<<"J", NBSP, NL, "D">>)>>}, row : {NoRow}, raises : BOOLEAN]

\* the documents pasted in a session: one whose only link has no identifier,
\* and those of up to MaxAnchors links with one
SessionAnchor(href) ==
    [href |-> href, kids |-> <<TextNode(<<"J", NBSP, NL, "D">>)>>, row |-> NoRow,
     raises |-> FALSE]

SessionInputs ==
    {EmptyHtml, Unparseable, Html(<<SessionAnchor(<<CHILD>>)>>)}
      \cup {Html(as) : as \in SeqsUpTo({SessionAnchor(<<CHILD, "7">>)}, MaxAnchors)}

\* filename arguments: omitted, or one given by the caller
Filenames(ext) == { <<>>, <<"out", 0, ext>> }
IoOutcomes == {"ok", "open", "write"}

\* ------------------------------------------------------------ one extract call
ExtractOnce ==
    /\ calls = <<>>
    /\ \/ \E html \in {EmptyHtml, Unparseable} : extract(html)
       \/ \E a \in DeepAnchors : extract(Html(<<a>>))
       \/ \E as \in SeqsUpTo(WideAnchors, MaxAnchors) : extract(Html(as))
    /\ UNCHANGED shell

SpecExtract == Init /\ [][ExtractOnce]_vars

\* ------------------------------------------------------------ a session of calls
Extract ==
    /\ Len(calls) < MaxCalls
    /\ \E html \in SessionInputs : extract(html)
    /\ UNCHANGED shell

ExportCsv ==
    /\ Len(calls) < MaxCalls
    /\ \E filename \in Filenames("csv"), io \in IoOutcomes : export_to_csv(filename, io)
    /\ UNCHANGED shell

ExportExcel ==
    /\ Len(calls) < MaxCalls
    /\ \E filename \in Filenames("xlsx"), io \in IoOutcomes : export_to_excel(filename, io)
    /\ UNCHANGED shell

\* time passes between calls
tick ==
    /\ now < MaxClock
    /\ now' = now + 1
    /\ UNCHANGED <<all_children, html_content, calls, files, has_pandas,
                   text_in, text_out>>

Tick == tick /\ UNCHANGED shell

Next == Extract \/ ExportCsv \/ ExportExcel \/ Tick

Spec == Init /\ [][Next]_vars

\* ------------------------------------------------------------ _sanitize_text alone
SanitizeChars == {" ", NBSP, NL, "J"}
SanitizeInputs == {None} \cup SeqsUpTo(SanitizeChars, MaxLen)

InitSanitize ==
    /\ all_children = <<>>
    /\ html_content = EmptyHtml
    /\ calls = <<>>
    /\ files = {}
    /\ now = 0
    /\ has_pandas = FALSE
    /\ pc = "sanitize"
    /\ export_format = "none"
    /\ default_filename = <<>>
    /\ text_in \in SanitizeInputs
    /\ text_out = None

\* name = self._sanitize_text(text)
Sanitize ==
    /\ pc = "sanitize"
    /\ text_out' = _sanitize_text(text_in)
    /\ pc' = "sanitized"
    /\ UNCHANGED <<all_children, html_content, calls, files, now,
                   has_pandas, export_format, default_filename, text_in>>

\* the result sanitized once more
SanitizeAgain ==
    /\ pc = "sanitized"
    /\ text_in' = text_out
    /\ text_out' = _sanitize_text(text_out)
    /\ pc' = "resanitized"
    /\ UNCHANGED <<all_children, html_content, calls, files, now,
                   has_pandas, export_format, default_filename>>

NextSanitize == Sanitize \/ SanitizeAgain

SpecSanitize == InitSanitize /\ [][NextSanitize]_vars

\* ------------------------------------------------------------ main()
(* The interactive loop, lines 225-323.  pc is the input() the shell is     *)
(* blocked in; one action is the user's answer and everything the shell    *)
(* does with it up to the next input().                                    *)
InitMain ==
    /\ all_children = <<>>
    /\ html_content = EmptyHtml
    /\ calls = <<>>
    /\ files = {}
    /\ now = 0
    /\ has_pandas \in BOOLEAN
    /\ pc = "paste"
    /\ export_format = "none"
    /\ default_filename = <<>>
    /\ text_in = None
    /\ text_out = None

Answers == {"yes", "no", "other"}
Formats == {"csv", "excel", "other"}
Ext(format) == IF format = "csv" THEN "csv" ELSE "xlsx"

\* lines 230-257: the pasted lines up to DONE; blank input is not extracted
Paste(html) ==
    /\ pc = "paste"
    /\ IF html.kind = "empty"
       THEN UNCHANGED <<all_children, html_content, calls, files, now, has_pandas,
                        text_in, text_out>>
       ELSE Len(calls) < MaxCalls /\ extract(html)
    /\ pc' = "menu"
    /\ UNCHANGED <<export_format, default_filename>>

\* lines 259-260 and 322-323: "add", or an invalid choice
MenuAgain ==
    /\ pc = "menu"
    /\ pc' = "paste"
    /\ UNCHANGED <<all_children, html_content, calls, files, now, has_pandas,
                   export_format, default_filename, text_in, text_out>>

\* lines 261-266: "export"
MenuExport ==
    /\ pc = "menu"
    /\ pc' = IF all_children = <<>> THEN "paste" ELSE "format"
    /\ UNCHANGED <<all_children, html_content, calls, files, now, has_pandas,
                   export_format, default_filename, text_in, text_out>>

\* lines 294-297 and 319-320: "quit"
MenuQuit ==
    /\ pc = "menu"
    /\ pc' = IF all_children # <<>> THEN "save" ELSE "exited"
    /\ UNCHANGED <<all_children, html_content, calls, files, now, has_pandas,
                   export_format, default_filename, text_in, text_out>>

\* lines 266-270, 277-279, 286-287: the format chosen on the export path
ChooseFormat(format) ==
    /\ pc = "format"
    /\ export_format' = format
    /\ IF format = "other"
       THEN pc' = "continue" /\ UNCHANGED default_filename
       ELSE pc' = "filename" /\ default_filename' = <<"child_data", now, Ext(format)>>
    /\ UNCHANGED <<all_children, html_content, calls, files, now, has_pandas,
                   text_in, text_out>>

\* extractor.export_to_csv(filename) or extractor.export_to_excel(filename)
export(filename, io) ==
    IF export_format = "csv" THEN export_to_csv(filename, io)
    ELSE export_to_excel(filename, io)

\* lines 270-284: the filename, and the export
EnterFilename(filename, io) ==
    /\ pc = "filename"
    /\ Len(calls) < MaxCalls
    /\ export(IF filename = <<>> THEN default_filename ELSE filename, io)
    /\ pc' = "continue"
    /\ UNCHANGED <<export_format, default_filename>>

\* lines 290-292
Continue(answer) ==
    /\ pc = "continue"
    /\ pc' = IF answer = "yes" THEN "paste" ELSE "exited"
    /\ UNCHANGED <<all_children, html_content, calls, files, now, has_pandas,
                   export_format, default_filename, text_in, text_out>>

\* lines 297-299 and 319-320: "Save data before quitting?"
SaveBeforeQuit(answer) ==
    /\ pc = "save"
    /\ pc' = IF answer = "yes" THEN "quit_format" ELSE "exited"
    /\ UNCHANGED <<all_children, html_content, calls, files, now, has_pandas,
                   export_format, default_filename, text_in, text_out>>

\* lines 299-303, 310-312: the format chosen on the quit path
QuitFormat(format) ==
    /\ pc = "quit_format"
    /\ export_format' = format
    /\ IF format = "other"
       THEN pc' = "exited" /\ UNCHANGED default_filename
       ELSE pc' = "quit_filename" /\ default_filename' = <<"child_data", now, Ext(format)>>
    /\ UNCHANGED <<all_children, html_content, calls, files, now, has_pandas,
                   text_in, text_out>>

\* lines 303-320: the filename, the export, and the break that follows it
QuitFilename(filename, io) ==
    /\ pc = "quit_filename"
    /\ Len(calls) < MaxCalls
    /\ export(IF filename = <<>> THEN default_filename ELSE filename, io)
    /\ pc' = "exited"
    /\ UNCHANGED <<export_format, default_filename>>

NextMain ==
    \/ \E html \in SessionInputs : Paste(html)
    \/ MenuAgain
    \/ MenuExport
    \/ MenuQuit
    \/ \E format \in Formats : ChooseFormat(format)
    \/ \E filename \in Filenames("csv") \cup Filenames("xlsx"), io \in IoOutcomes :
          EnterFilename(filename, io)
    \/ \E answer \in Answers : Continue(answer)
    \/ \E answer \in Answers : SaveBeforeQuit(answer)
    \/ \E format \in Formats : QuitFormat(format)
    \/ \E filename \in Filenames("csv") \cup Filenames("xlsx"), io \in IoOutcomes :
          QuitFilename(filename, io)
    \/ Tick

SpecMain == InitMain /\ [][NextMain]_vars

\* ------------------------------------------------------------ properties
Last(seq) == seq[Len(seq)]
IsExport(c) == c.op \in {"csv", "excel"}
ExtractReturns ==
    [i \in DOMAIN calls |-> IF calls[i].op = "extract" THEN calls[i].ret ELSE <<>>]

\* the document of the one extract call made, and the list it returned
OneCall == Len(calls) = 1 /\ calls[1].op = "extract" /\ html_content.kind = "html"
Anchors == html_content.anchors
Ret == calls[1].ret

\* the claims' reading of a link, written from their words
IsChildLink(href) == \E i \in DOMAIN href : href[i] = CHILD
HasId(href) ==
    \E i \in DOMAIN href : href[i] = CHILD /\ i < Len(href) /\ href[i + 1] \notin {"/", CHILD}
\* the text after the first "/child/" that a non-"/" character follows, up to
\* the next "/" or the end of the link
ClaimedId(href) ==
    LET i == CHOOSE k \in DOMAIN href :
                 /\ href[k] = CHILD /\ k < Len(href) /\ href[k + 1] \notin {"/", CHILD}
                 /\ \A j \in 1..(k - 1) :
                       ~(href[j] = CHILD /\ href[j + 1] \notin {"/", CHILD})
        j == CHOOSE m \in (i + 1)..Len(href) :
                 /\ \A n \in (i + 1)..m : href[n] \notin {"/", CHILD}
                 /\ (m = Len(href) \/ href[m + 1] \in {"/", CHILD})
    IN  [n \in 1..(j - i) |-> href[i + n]]
Produces(a) == IsChildLink(a.href) /\ HasId(a.href) /\ ~a.raises
IsBlank(text) == \A i \in DOMAIN text : text[i] = " "
FirstNameDiv(a) ==
    CHOOSE i \in DOMAIN a.kids :
        /\ a.kids[i].div /\ a.kids[i].cls \cap NameClasses # {}
        /\ \A j \in 1..(i - 1) : ~(a.kids[j].div /\ a.kids[j].cls \cap NameClasses # {})
HasNameDiv(a) == \E i \in DOMAIN a.kids : a.kids[i].div /\ a.kids[i].cls \cap NameClasses # {}
HasWordDiv(a) ==
    \E i \in DOMAIN a.kids :
        a.kids[i].div /\ \E k \in DOMAIN a.kids[i].txt : IsWordChar(a.kids[i].txt[k])
Filler == {"overview", "profile", "details"}
FillerOnly(a) ==
    /\ \E i \in DOMAIN anchor_text(a) : anchor_text(a)[i] \in Filler
    /\ \A i \in DOMAIN anchor_text(a) : anchor_text(a)[i] \in Filler \cup {" ", NBSP, NL}
StrippedRow(a) ==
    SelectSeq(_sanitize_text(row_text(a)), LAMBDA c : c \notin Filler)

\* C1: all_children is the concatenation, in call order, of the lists the
\* extract calls returned, whatever exports came between them; so its length
\* is the sum of the returned lengths and an empty return leaves it unchanged.
C1_Accumulated == all_children = Concat(ExtractReturns)

\* C1 witness: two extract calls that returned records with an export between
C1_Witness ==
    /\ Len(calls) = 3
    /\ calls[1].op = "extract" /\ calls[1].ret # <<>>
    /\ IsExport(calls[2])
    /\ calls[3].op = "extract" /\ calls[3].ret # <<>>
    /\ calls[1].ret # calls[3].ret

\* C2 (as claimed): when every anchor of the document is a child link with an
\* identifier, the identifiers are distinct and no anchor fails, extract
\* returns one record per anchor, in document order, with that anchor's
\* identifier, a non-empty id and a non-empty name.
C2_OnePerAnchor ==
    (/\ OneCall
     /\ \A i \in DOMAIN Anchors : Produces(Anchors[i])
     /\ \A i, j \in DOMAIN Anchors :
           i # j => ClaimedId(Anchors[i].href) # ClaimedId(Anchors[j].href))
    => /\ Len(Ret) = Len(Anchors)
       /\ \A i \in DOMAIN Ret :
             /\ Ret[i].id = ClaimedId(Anchors[i].href)
             /\ Ret[i].id # <<>>
             /\ Ret[i].name # <<>>

\* C3 (as claimed): no record of all_children has an empty name, and a record
\* whose anchor no tier resolves (the tiers give nothing or "Unknown", and
\* there is no ancestor row or its stripped text is nothing but spaces) is
\* named "Unknown".
C3_NameNeverEmpty ==
    /\ \A i \in DOMAIN all_children : all_children[i].name # <<>>
    /\ (OneCall /\ Len(Anchors) = 1 /\ Len(Ret) = 1
        /\ _find_child_name(Anchors[1]) \in {<<>>, Unknown}
        /\ (~Anchors[1].row.present \/ IsBlank(StrippedRow(Anchors[1]))))
       => Ret[1].name = Unknown

\* C4: the list extract returns holds exactly the records of the child links
\* that have an identifier and do not fail, in document order: an anchor
\* without identifier or one that fails adds nothing and stops nothing, and
\* the call returns.
C4_SkipsOnlyBadAnchors ==
    OneCall =>
        LET good == SelectSeq(Anchors, Produces)
        IN  /\ calls[1].why = "returned"
            /\ Len(Ret) = Len(good)
            /\ \A i \in DOMAIN Ret : Ret[i].id = ClaimedId(good[i].href)

\* C4 witness: a failing anchor and one without identifier, each between
\* anchors that produce their records
C4_Witness ==
    /\ OneCall
    /\ Len(Anchors) = 3
    /\ Produces(Anchors[1]) /\ Produces(Anchors[3])
    /\ IsChildLink(Anchors[2].href) /\ ~HasId(Anchors[2].href)
    /\ Len(Ret) = 2
    /\ Ret[1].id = <<"7">> /\ Ret[2].id = <<"8">>

\* C5 (as claimed): an anchor with a div of class col-lg-8 or col-xs-8 is
\* named by the sanitized text of that div, whatever the other tiers and the
\* ancestor row would give.
C5_NameDivAlways ==
    (OneCall /\ Len(Anchors) = 1 /\ Len(Ret) = 1 /\ HasNameDiv(Anchors[1]))
    => Ret[1].name = _sanitize_text(Anchors[1].kids[FirstNameDiv(Anchors[1])].txt)

\* C5 (amended): an anchor with a div of class col-lg-8 or col-xs-8 is named
\* by the sanitized text of the first such div whenever that text is neither
\* empty nor "Unknown", whatever the other tiers and the ancestor row would
\* give.
C5_NameDivWhenResolved ==
    (OneCall /\ Len(Anchors) = 1 /\ Len(Ret) = 1 /\ HasNameDiv(Anchors[1]))
    => LET text == _sanitize_text(Anchors[1].kids[FirstNameDiv(Anchors[1])].txt)
       IN  text \notin {<<>>, Unknown} => Ret[1].name = text

\* C5 witness: the name div comes after a word-bearing div with other text,
\* inside a row with text of its own
C5_Witness ==
    /\ OneCall /\ Len(Anchors) = 1 /\ Len(Ret) = 1
    /\ Len(Anchors[1].kids) = 2
    /\ Anchors[1].kids[1].div /\ Anchors[1].kids[1].cls = {}
    /\ Anchors[1].kids[1].txt = <<" ", "overview", " ", "profile", " ">>
    /\ Anchors[1].kids[2].div /\ Anchors[1].kids[2].cls = {"media", "col-xs-8"}
    /\ Anchors[1].kids[2].txt = <<"J", NBSP, NL, "D">>
    /\ Anchors[1].row.present /\ Anchors[1].row.before = <<"K">>
    /\ Ret[1].name = <<"J", " ", "D">>

\* C6: an export never changes all_children, whatever its outcome, and the
\* length of all_children never decreases.
C6_ExportFrame ==
    [][/\ (Len(calls') > Len(calls) /\ IsExport(Last(calls'))) => all_children' = all_children
       /\ Len(all_children') >= Len(all_children)]_vars

\* C6 witness: with records held, a CSV export that succeeded, a spreadsheet
\* export that did not
C6_Witness ==
    /\ Len(calls) = 3
    /\ calls[1].op = "extract" /\ all_children # <<>>
    /\ calls[2].op = "csv" /\ calls[2].why = "ok"
    /\ calls[3].op = "excel" /\ calls[3].why \in {"nolib", "write"}

\* C7: while all_children is empty every export made has ended "empty" with
\* no path, and there is no file; a file exists only once a record is held.
C7_EmptyExport ==
    all_children = <<>> =>
        /\ files = {}
        /\ \A i \in DOMAIN calls :
              IsExport(calls[i]) => calls[i].why = "empty" /\ calls[i].ret = <<>>

\* C7 witness: both exports tried on an empty collection, without pandas
C7_Witness ==
    /\ all_children = <<>>
    /\ ~has_pandas
    /\ Len(calls) = 3
    /\ calls[1].op = "extract"
    /\ calls[2].op = "csv" /\ calls[3].op = "excel"

\* no leading, trailing or consecutive whitespace, no non-breaking space
IsClean(text) ==
    /\ \A i \in DOMAIN text : text[i] # NBSP
    /\ text # <<>> => ~IsSpace(text[1]) /\ ~IsSpace(text[Len(text)])
    /\ \A i \in 1..(Len(text) - 1) : ~(IsSpace(text[i]) /\ IsSpace(text[i + 1]))

\* C8: sanitizing a sanitized text returns it unchanged; a sanitized text has
\* no leading, trailing or consecutive whitespace and no non-breaking space;
\* a text of non-breaking spaces and newlines only, or an empty or absent one,
\* sanitizes to the empty text.
C8_SanitizeIdempotent ==
    /\ pc = "resanitized" => text_out = text_in
    /\ pc \in {"sanitized", "resanitized"} => IsClean(text_out)
    /\ (pc = "sanitized"
        /\ (text_in = None \/ \A i \in DOMAIN text_in : text_in[i] \in {NBSP, NL}))
       => text_out = <<>>

\* C8 witness: a text with non-breaking spaces and a newline between and
\* around its words, sanitized twice
C8_Witness ==
    /\ pc = "resanitized"
    /\ text_out = <<"J", " ", "J">>

\* C9 (as claimed): an anchor with an identifier, no name div, no
\* word-bearing div and only filler words as its text is named by the
\* ancestor-row recovery, or "Unknown" when there is no row or nothing is
\* left of its text; not by its own filler text.
C9_FillerFallsBack ==
    (/\ OneCall /\ Len(Anchors) = 1 /\ Len(Ret) = 1
     /\ ~HasNameDiv(Anchors[1]) /\ ~HasWordDiv(Anchors[1]) /\ FillerOnly(Anchors[1]))
    => Ret[1].name =
          IF Anchors[1].row.present /\ StrippedRow(Anchors[1]) # <<>>
          THEN StrippedRow(Anchors[1]) ELSE Unknown

\* C9 (amended): an anchor with an identifier, no name div, no word-bearing
\* div and only filler words as its text is named by its own sanitized text
\* (the filler words, single-spaced); its ancestor row is not consulted.
C9_FillerIsTheName ==
    (/\ OneCall /\ Len(Anchors) = 1 /\ Len(Ret) = 1
     /\ ~HasNameDiv(Anchors[1]) /\ ~HasWordDiv(Anchors[1]) /\ FillerOnly(Anchors[1]))
    => /\ Ret[1].name = _sanitize_text(anchor_text(Anchors[1]))
       /\ \E i \in DOMAIN Ret[1].name : Ret[1].name[i] \in Filler

\* C9 witness: "  overview profile  " as the anchor's only text, in a row
\* that has a name before it
C9_Witness ==
    /\ OneCall /\ Len(Anchors) = 1 /\ Len(Ret) = 1
    /\ Anchors[1].kids = <<TextNode(<<" ", "overview", " ", "profile", " ">>)>>
    /\ Anchors[1].row.present /\ Anchors[1].row.before = <<"K">>
    /\ Ret[1].name = <<"overview", " ", "profile">>

\* C10 (as claimed): neither an export that fails nor an extraction that
\* yields nothing ends the session: after it the shell is at a prompt again
\* with the records still held, on the quit-with-save path too.
C10_FailedExportNeverExits ==
    [][(/\ Len(calls') > Len(calls)
        /\ \/ IsExport(Last(calls')) /\ Last(calls').why # "ok"
           \/ Last(calls').op = "extract" /\ Last(calls').ret = <<>>)
         => pc' # "exited" /\ all_children' = all_children]_vars
====
